---- MODULE Spec2Model ----
(***************************************************************************)
(* MMM-WmataBusSchedule node helper (node_helper.js).                      *)
(*                                                                         *)
(* The helper is one asynchronous handler, socketNotificationReceived,     *)
(* running on the single-threaded event loop of the host.  A handler runs  *)
(* without interruption until it awaits; it is resumed by the response of  *)
(* an HTTP call it started.  The model therefore has two steps: the        *)
(* arrival of a notification (the handler up to its first await) and the   *)
(* arrival of an HTTP response (the fetch operation's continuation and,    *)
(* when the awaited promise settles, the rest of the handler).             *)
(***************************************************************************)
EXTENDS Integers, Sequences, FiniteSets

(* ---------------------------------------------------------------- bounds *)

\* Invocations of the handler that may be in flight together.
MaxInv == 2
\* Longest configured destination list.
MaxDest == 2
\* Instants told apart within one minute of wall-clock time.
TicksPerMinute == 2
\* HTTP calls started over all invocations of one run.
MaxCalls == 4

MinutesPerHour == 60

VARIABLES
    inv,    \* inv[n]: the n-th invocation of socketNotificationReceived
    i,      \* the module-scope loop counter of line 180
    gate    \* one application of shouldWeFetchCommuteData: input and result

vars == <<inv, i, gate>>

(* ------------------------------------------------------------ wall clock *)

\* A moment: weekday (0 = Sunday) and ticks since local midnight.
Tick(hour, minute, sub) == (hour * MinutesPerHour + minute) * TicksPerMinute + sub

day(now) == now.day

minute(now) == (now.tick \div TicksPerMinute) % MinutesPerHour

\* moment(text, 'HH:mm a'): a 24-hour reading of hour and minute, corrected by
\* the meridiem token when the text carries one; seconds and below are zero,
\* the date is today's.
meridiemFix(hour, a) ==
    IF a = "pm" /\ hour < 12 THEN hour + 12
    ELSE IF a = "am" /\ hour = 12 THEN 0
    ELSE hour

ParseTime(text) == Tick(meridiemFix(text.hh, text.a), text.mm, 0)

\* Variant: inclusivity '[)'.
isBetweenInclusiveStart(now, from, to) == from <= now.tick /\ now.tick < to

\* moment#isBetween(from, to) with the default inclusivity '()'.
isBetween(now, from, to) == from < now.tick /\ now.tick < to

(* --------------------------------------------------------- schedule gate *)

shouldWeFetchCommuteData(config, now) ==
    IF "schedule" \in DOMAIN config
    THEN LET startTime == ParseTime(config.schedule.times.start)
             endTime   == ParseTime(config.schedule.times.stop)
         IN  day(now) \in config.schedule.days /\ isBetween(now, startTime, endTime)
    ELSE TRUE

(* ------------------------------------------------------ fetch operations *)

\* An axios call as a promise the fetch operation awaits (lines 58, 90, 125).
\* The request configurations of lines 52-56, 84-88 and 119-123 set method, url
\* and params only, so the library's default validateStatus decides which
\* responses resolve the promise: the statuses from 200 to 299.  Every other
\* status, and a transport failure, rejects it.
validateStatus(status) == status >= 200 /\ status < 300

axios(outcome, request) ==
    IF "status" \in DOMAIN outcome /\ validateStatus(outcome.status)
    THEN [state |-> "fulfilled",
          value |-> [status |-> outcome.status, data |-> [answers |-> request]]]
    ELSE [state |-> "rejected", reason |-> outcome]

NextBusRequest(config) ==
    [url |-> "NextBusService.svc/json/jPredictions", StopID |-> config.busStopId]

StopScheduleRequest(config) ==
    [url |-> "Bus.svc/json/jStopSchedule", StopID |-> config.busStopId]

TimeToWorkRequest(config, destination) ==
    [url |-> "maps/api/directions/json", origin |-> config.places.home,
     destination |-> destination.at, mode |-> "transit"]

\* The continuations of the three operations after their await.
fetchNextBus(scheduleResponse) ==
    IF scheduleResponse.status = 200
    THEN [data |-> scheduleResponse.data, processor |-> "processBusPredictorData",
          success |-> TRUE]
    ELSE [status |-> scheduleResponse.status, success |-> FALSE]

fetchStopSchedule(sctopResponse) ==
    IF sctopResponse.status = 200
    THEN [data |-> sctopResponse.data, processor |-> "processStopData",
          success |-> TRUE]
    ELSE [status |-> sctopResponse.status, success |-> FALSE]

fetchTimeToWork(destination, commuteResponse) ==
    IF commuteResponse.status = 200
    THEN [data |-> commuteResponse.data, name |-> destination.name,
          processor |-> "processCommuteData", success |-> TRUE]
    ELSE [status |-> commuteResponse.status, success |-> FALSE]

\* The promise an operation returns when it is called: pending on the HTTP
\* call it has started.  fetchTimeToWork reads config.places.home before it
\* calls axios (line 114): without a home the promise is born rejected and no
\* call is started.
StartNextBus(config) ==
    [op |-> "fetchNextBus", state |-> "pending", request |-> NextBusRequest(config)]

\* Variant: the stop schedule is asked of fetchNextBus.
StartStopScheduleAsNextBus(config) ==
    [op |-> "fetchNextBus", state |-> "pending", request |-> NextBusRequest(config)]

StartStopSchedule(config) ==
    [op |-> "fetchStopSchedule", state |-> "pending",
     request |-> StopScheduleRequest(config)]

StartTimeToWork(config, destination) ==
    IF "home" \in DOMAIN config.places
    THEN [op |-> "fetchTimeToWork", state |-> "pending", destination |-> destination,
          request |-> TimeToWorkRequest(config, destination)]
    ELSE [op |-> "fetchTimeToWork", state |-> "rejected", destination |-> destination,
          reason |-> [error |-> "TypeError"]]

\* A JavaScript object extended with further properties.
With(object, more) ==
    [key \in DOMAIN object \cup DOMAIN more |->
        IF key \in DOMAIN more THEN more[key] ELSE object[key]]

\* The promise after the response of its HTTP call: the operation resumes with
\* the response, or is rejected with the error axios threw.
Settle(p, outcome) ==
    LET r == axios(outcome, p.request)
        result == IF p.op = "fetchNextBus" THEN fetchNextBus(r.value)
                  ELSE IF p.op = "fetchStopSchedule" THEN fetchStopSchedule(r.value)
                  ELSE fetchTimeToWork(p.destination, r.value)
    IN  IF r.state = "fulfilled"
        THEN IF p.op = "fetchTimeToWork"
             THEN [op |-> p.op, state |-> "fulfilled", request |-> p.request,
                   destination |-> p.destination, response |-> outcome,
                   value |-> result]
             ELSE [op |-> p.op, state |-> "fulfilled", request |-> p.request,
                   response |-> outcome, value |-> result]
        ELSE IF p.op = "fetchTimeToWork"
             THEN [op |-> p.op, state |-> "rejected", request |-> p.request,
                   destination |-> p.destination, response |-> outcome,
                   reason |-> r.reason]
             ELSE [op |-> p.op, state |-> "rejected", request |-> p.request,
                   response |-> outcome, reason |-> r.reason]

(* ------------------------------------------------- dispatch, aggregation *)

FETCH_STOP_SCHEDULE == "MMM-WmataBusSchedule-FETCH_STOP_SCHEDULE"
FETCH_COMMUTE == "MMM-WmataBusSchedule-FETCH_COMMUTE"
BUS_STOP_DATA == "MMM-WmataBusSchedule-BUS_STOP_DATA"
COMMUTE_DATA == "MMM-WmataBusSchedule-COMMUTE_DATA"
TEAR_DOWN_DOM == "MMM-WmataBusSchedule-TEAR-DOWN-DOM"

\* Variant: the loop goes on from the value the global holds.
LoopStartStale(global) == IF global < 0 THEN 0 ELSE global

\* for (i = 0; ...): the value the loop of line 180 starts from, whatever the
\* global holds.
LoopStart(global) == 0

\* Variant: the loop stops one destination short.
RECURSIVE PushTimeToWorkOffByOne(_, _, _)
PushTimeToWorkOffByOne(requests, payload, c) ==
    IF c < Len(payload.places.destinations) - 1
    THEN PushTimeToWorkOffByOne(
             Append(requests, StartTimeToWork(payload, payload.places.destinations[c + 1])),
             payload, c + 1)
    ELSE requests

\* The loop of lines 180-184 from counter value c: one fetchTimeToWork per
\* destination from index c on, pushed in index order.
RECURSIVE PushTimeToWork(_, _, _)
PushTimeToWork(requests, payload, c) ==
    IF c < Len(payload.places.destinations)
    THEN PushTimeToWork(
             Append(requests, StartTimeToWork(payload, payload.places.destinations[c + 1])),
             payload, c + 1)
    ELSE requests

\* The counter when the loop of line 180 is left.
RECURSIVE LoopEnd(_, _)
LoopEnd(payload, c) ==
    IF c < Len(payload.places.destinations) THEN LoopEnd(payload, c + 1) ELSE c

\* Variant: the values in the reverse of the order of the list.
ResponsesReversed(self) ==
    [k \in DOMAIN self.requests |-> self.requests[Len(self.requests) + 1 - k].value]

\* The value Promise.all(requests) is fulfilled with: the values of the
\* promises in the order of the list.
Responses(self) == [k \in DOMAIN self.requests |-> self.requests[k].value]

\* Variant: settles only when every promise has settled.
PromiseAllSettled(requests) ==
    IF \A k \in DOMAIN requests : requests[k].state # "pending"
    THEN IF \E k \in DOMAIN requests : requests[k].state = "rejected"
         THEN "rejected" ELSE "fulfilled"
    ELSE "pending"

\* Promise.all(requests) (line 190): rejected as soon as one of the promises
\* is rejected, fulfilled once all of them are fulfilled, pending otherwise.
PromiseAll(requests) ==
    IF \E k \in DOMAIN requests : requests[k].state = "rejected" THEN "rejected"
    ELSE IF \A k \in DOMAIN requests : requests[k].state = "fulfilled" THEN "fulfilled"
    ELSE "pending"

\* Lines 189-198 once the awaited Promise.all has settled.
Aggregate(self) ==
    IF PromiseAll(self.requests) = "fulfilled"
    THEN [self EXCEPT !.pc = "done",
                      !.sent = Append(self.sent, [notification |-> COMMUTE_DATA,
                                                  payload |-> Responses(self)])]
    ELSE IF PromiseAll(self.requests) = "rejected"
    THEN [self EXCEPT !.pc = "done", !.logged = self.logged + 1]
    ELSE self

\* Lines 154-163 once the awaited fetchStopSchedule has settled.
ForwardStopSchedule(self) ==
    IF self.requests[1].state = "fulfilled"
    THEN [self EXCEPT !.pc = "done",
                      !.sent = Append(self.sent, [notification |-> BUS_STOP_DATA,
                                                  payload |-> self.requests[1].value])]
    ELSE IF self.requests[1].state = "rejected"
    THEN [self EXCEPT !.pc = "done", !.logged = self.logged + 1]
    ELSE self

\* Variant: nothing is sent.
TearDownSilent(self) == [self EXCEPT !.pc = "done"]

\* Line 202: the gate is closed.
TearDown(self) ==
    [self EXCEPT !.pc = "done",
                 !.sent = Append(self.sent, [notification |-> TEAR_DOWN_DOM])]

\* socketNotificationReceived (lines 140-204) from its call to its first await
\* or its end.  The result is the invocation and the module-scope counter.
\* overtaken records that a response arrived before that of an earlier request.
\*   pc "awaiting": suspended at line 155 or line 190;
\*   pc "done":     the handler has returned;
\*   pc "threw":    an exception left the handler (its promise is rejected).
Received(notification, payload, now, global) ==
    LET self == [pc |-> "awaiting", notification |-> notification, payload |-> payload,
                 now |-> now, weShouldFetch |-> shouldWeFetchCommuteData(payload, now),
                 requests |-> <<>>, overtaken |-> FALSE, sent |-> <<>>, logged |-> 0]
    IN  IF ~self.weShouldFetch
        THEN [self |-> TearDown(self), i |-> global]
        ELSE IF notification = FETCH_STOP_SCHEDULE
        THEN [self |-> [self EXCEPT !.requests = <<StartStopSchedule(payload)>>],
              i |-> global]
        ELSE IF notification = FETCH_COMMUTE
        THEN LET first == <<StartNextBus(payload)>>
             IN  IF minute(now) % 2 = 0
                 THEN IF "places" \in DOMAIN payload
                         /\ "destinations" \in DOMAIN payload.places
                      THEN LET requests ==
                                   PushTimeToWork(first, payload, LoopStart(global))
                           IN  [self |-> Aggregate([self EXCEPT !.requests = requests]),
                                i |-> LoopEnd(payload, LoopStart(global))]
                      ELSE \* TypeError at line 180, outside every try
                           [self |-> [self EXCEPT !.pc = "threw", !.requests = first],
                            i |-> LoopStart(global)]
                 ELSE [self |-> [self EXCEPT !.requests = first], i |-> global]
        ELSE [self |-> [self EXCEPT !.pc = "done"], i |-> global]

\* The rest of the handler when the response of its k-th request arrives.
Resumed(self, k, outcome) ==
    LET next == [self EXCEPT
                     !.requests[k] = Settle(self.requests[k], outcome),
                     !.overtaken = self.overtaken
                                   \/ \E j \in 1..(k - 1) : self.requests[j].state = "pending"]
    IN  IF self.pc # "awaiting" THEN next
        ELSE IF self.notification = FETCH_STOP_SCHEDULE THEN ForwardStopSchedule(next)
        ELSE Aggregate(next)

(* ---------------------------------------------------------------- inputs *)

Weekdays == {1, 2, 3, 4, 5}

Time(hh, mm) == [hh |-> hh, mm |-> mm, a |-> ""]

Moment(d, hh, mm, sub) == [day |-> d, tick |-> Tick(hh, mm, sub)]

\* A schedule: weekdays from 08:00 to 09:00.
MorningSchedule ==
    [days |-> Weekdays, times |-> [start |-> Time(8, 0), stop |-> Time(9, 0)]]

Destination(k) == [name |-> k, at |-> k]

\* The destination list of length n; the position of a destination in it is
\* not its name.
Destinations(n) == [k \in 1..n |-> Destination(n + 1 - k)]

Basic == [busStopId |-> "1001"]

Scheduled == With(Basic, [schedule |-> MorningSchedule])

Full == [home |-> "home", destinations |-> Destinations(MaxDest)]

\* config.places: home and destinations are both optional.
PlacesChoices ==
    {[home |-> "home", destinations |-> Destinations(n)] : n \in 0..MaxDest}
    \cup {[destinations |-> Destinations(MaxDest)], [home |-> "home"]}

\* Configurations for FETCH_COMMUTE: without places or with any of the
\* choices, and the schedule with the longest list.
Payloads ==
    {Basic, With(Scheduled, [places |-> Full])}
    \cup {With(Basic, [places |-> p]) : p \in PlacesChoices}

\* The notifications tried.  fetchStopSchedule reads the stop identifier only,
\* and at an odd minute FETCH_COMMUTE reads no places: one configuration each.
\* Every configuration is tried with FETCH_COMMUTE at an even minute.
Inputs ==
    {<<FETCH_STOP_SCHEDULE, Basic, Moment(1, 8, 0, 1)>>,
     <<FETCH_STOP_SCHEDULE, Scheduled, Moment(6, 8, 30, 0)>>,
     <<FETCH_COMMUTE, With(Basic, [places |-> Full]), Moment(1, 8, 1, 1)>>,
     <<FETCH_COMMUTE, With(Scheduled, [places |-> Full]), Moment(6, 8, 30, 0)>>}
    \cup ({FETCH_COMMUTE} \X Payloads \X {Moment(1, 8, 0, 1)})

\* What the provider answers to one call: a status, or nothing (transport error).
Outcomes == {[status |-> 200], [status |-> 204], [status |-> 404],
             [error |-> "ECONNREFUSED"]}

(* ----------------------------------------------------------------- state *)

Invocations == 1..MaxInv

Idle == [pc |-> "idle"]

Undeclared == -1

NoGate == [called |-> FALSE]

Started(n) == inv[n].pc # "idle"

\* HTTP calls an invocation has started.
Calls(self) == {k \in DOMAIN self.requests : "request" \in DOMAIN self.requests[k]}

RECURSIVE CallsUpTo(_, _)
CallsUpTo(invs, n) ==
    IF n = 0 THEN 0
    ELSE CallsUpTo(invs, n - 1)
         + (IF invs[n].pc = "idle" THEN 0 ELSE Cardinality(Calls(invs[n])))

Init ==
    /\ inv = [n \in Invocations |-> Idle]
    /\ i = Undeclared
    /\ gate = NoGate

\* A notification arrives from the main module: a new invocation runs up to
\* its first await.
socketNotificationReceived(n) ==
    /\ inv[n].pc = "idle"
    /\ \A m \in 1..(n - 1) : Started(m)
    /\ \E input \in Inputs :
          LET r == Received(input[1], input[2], input[3], i)
          IN  /\ inv' = [inv EXCEPT ![n] = r.self]
              /\ i' = r.i
              /\ CallsUpTo(inv', MaxInv) <= MaxCalls
    /\ UNCHANGED gate

\* The response of a pending HTTP call arrives: the operation that awaits it
\* resumes, and with it whatever awaits the operation.
axiosResponse(n, k) ==
    /\ Started(n)
    /\ k \in Calls(inv[n])
    /\ inv[n].requests[k].state = "pending"
    /\ \E outcome \in Outcomes :
          inv' = [inv EXCEPT ![n] = Resumed(inv[n], k, outcome)]
    /\ UNCHANGED <<i, gate>>

Next ==
    \/ \E n \in Invocations : socketNotificationReceived(n)
    \/ \E n \in Invocations, k \in 1..(MaxDest + 1) : axiosResponse(n, k)

Spec == Init /\ [][Next]_vars

(* ------------------------------------------- the schedule gate on its own *)

GateTimes == {Time(8, 0), Time(9, 0), Time(22, 0), [hh |-> 9, mm |-> 30, a |-> "pm"]}

GateDays == {Weekdays, {0, 6}, {}}

GateConfigs ==
    {Basic}
    \cup {With(Basic, [schedule |-> [days |-> d, times |-> [start |-> t1, stop |-> t2]]]) :
             d \in GateDays, t1 \in GateTimes, t2 \in GateTimes}

GateMoments ==
    {Moment(d, hh, mm, sub) :
        d \in {1, 6}, hh \in {7, 8, 9, 21, 22}, mm \in {0, 1, 30},
        sub \in 0..(TicksPerMinute - 1)}

InitGate ==
    /\ inv = [n \in Invocations |-> Idle]
    /\ i = Undeclared
    /\ gate \in {[called |-> FALSE, config |-> c, now |-> t] :
                    c \in GateConfigs, t \in GateMoments}

\* shouldWeFetchCommuteData(config) is called at the moment now.
CallGate ==
    /\ ~gate.called
    /\ gate' = With(gate, [called |-> TRUE,
                           result |-> shouldWeFetchCommuteData(gate.config, gate.now)])
    /\ UNCHANGED <<inv, i>>

NextGate == CallGate

SpecGate == InitGate /\ [][NextGate]_vars

(* ------------------------------------------------------------ properties *)

HasDestinations(payload) ==
    "places" \in DOMAIN payload /\ "destinations" \in DOMAIN payload.places

\* D: the number of configured destinations, none when no list is configured.
NumDestinations(payload) ==
    IF HasDestinations(payload) THEN Len(payload.places.destinations) ELSE 0

EvenMinute(n) == minute(inv[n].now) % 2 = 0

Commute(n) ==
    Started(n) /\ inv[n].notification = FETCH_COMMUTE /\ inv[n].weShouldFetch

StopSchedule(n) ==
    Started(n) /\ inv[n].notification = FETCH_STOP_SCHEDULE /\ inv[n].weShouldFetch

StateOf(n, k) == inv[n].requests[k].state

SomeRejected(n) == \E k \in DOMAIN inv[n].requests : StateOf(n, k) = "rejected"

SomePending(n) == \E k \in DOMAIN inv[n].requests : StateOf(n, k) = "pending"

AllFulfilled(n) == \A k \in DOMAIN inv[n].requests : StateOf(n, k) = "fulfilled"

Sent(n, name) == {s \in DOMAIN inv[n].sent : inv[n].sent[s].notification = name}

\* C1: an invocation of either kind that finds the gate closed starts no HTTP
\* call and emits exactly one signal, TEAR-DOWN-DOM.
C1_ClosedGateTearsDown ==
    \A n \in Invocations :
        (Started(n) /\ ~inv[n].weShouldFetch) =>
            /\ inv[n].requests = <<>>
            /\ Len(inv[n].sent) = 1
            /\ inv[n].sent[1].notification = TEAR_DOWN_DOM
            /\ inv[n].pc = "done"

C1_Witness ==
    \E n, m \in Invocations :
        /\ Started(n) /\ ~inv[n].weShouldFetch
        /\ inv[n].notification = FETCH_STOP_SCHEDULE
        /\ Started(m) /\ ~inv[m].weShouldFetch
        /\ inv[m].notification = FETCH_COMMUTE

InWindowHalfOpen(config, now) ==
    /\ day(now) \in config.schedule.days
    /\ ParseTime(config.schedule.times.start) <= now.tick
    /\ now.tick < ParseTime(config.schedule.times.stop)

InWindowOpen(config, now) ==
    /\ day(now) \in config.schedule.days
    /\ ParseTime(config.schedule.times.start) < now.tick
    /\ now.tick < ParseTime(config.schedule.times.stop)

\* C2 as stated: the gate is open iff there is no schedule, or the weekday is
\* an active day and the time of day lies in [start, stop).
C2_HalfOpenWindow ==
    gate.called =>
        (gate.result <=>
            ("schedule" \notin DOMAIN gate.config
             \/ InWindowHalfOpen(gate.config, gate.now)))

\* C2 as amended: the gate is open iff there is no schedule, or the weekday is
\* an active day and the time of day lies strictly between start and stop;
\* it is closed at start exactly, at stop exactly, and all day when stop is
\* not after start.
C2_OpenWindow ==
    gate.called =>
        /\ gate.result <=>
              ("schedule" \notin DOMAIN gate.config
               \/ InWindowOpen(gate.config, gate.now))
        /\ ("schedule" \in DOMAIN gate.config
            /\ ParseTime(gate.config.schedule.times.stop)
                  <= ParseTime(gate.config.schedule.times.start))
              => ~gate.result

C2_Witness ==
    /\ gate.called
    /\ "schedule" \in DOMAIN gate.config
    /\ day(gate.now) \in gate.config.schedule.days
    /\ gate.now.tick = ParseTime(gate.config.schedule.times.start)
    /\ gate.now.tick < ParseTime(gate.config.schedule.times.stop)
    /\ ~gate.result

C4_LaunchOrder ==
    \A n \in Invocations :
        Commute(n) =>
            \A s \in Sent(n, COMMUTE_DATA) :
                LET self == inv[n]
                    list == self.sent[s].payload
                IN  /\ Len(list) = Len(self.requests)
                    /\ self.requests[1].op = "fetchNextBus"
                    /\ list[1] = self.requests[1].value
                    /\ list[1].success => list[1].processor = "processBusPredictorData"
                    /\ \A k \in 1..(Len(list) - 1) :
                          LET destination == self.payload.places.destinations[k]
                          IN  /\ self.requests[k + 1].op = "fetchTimeToWork"
                              /\ self.requests[k + 1].destination = destination
                              /\ list[k + 1] = self.requests[k + 1].value
                              /\ list[k + 1].success =>
                                    /\ list[k + 1].name = destination.name
                                    /\ list[k + 1].data.answers.destination
                                          = destination.at

C4_Witness ==
    \E n \in Invocations :
        /\ Commute(n) /\ inv[n].overtaken
        /\ NumDestinations(inv[n].payload) = MaxDest
        /\ Sent(n, COMMUTE_DATA) # {}
        /\ \A k \in DOMAIN inv[n].requests : inv[n].requests[k].value.success

Answered(n, k) == "response" \in DOMAIN inv[n].requests[k]

\* C5: whatever status other than 200 the provider answers, the operation
\* returns a result with success false and that status, which is delivered
\* like a success result.
C5_FailureResultDelivered ==
    \A n \in Invocations :
        Started(n) =>
            \A k \in DOMAIN inv[n].requests :
                (/\ Answered(n, k)
                 /\ "status" \in DOMAIN inv[n].requests[k].response
                 /\ inv[n].requests[k].response.status # 200) =>
                    /\ StateOf(n, k) = "fulfilled"
                    /\ ~inv[n].requests[k].value.success
                    /\ inv[n].requests[k].value.status
                          = inv[n].requests[k].response.status

\* A fetch of the invocation has thrown a transport-level error.
TransportError(n) ==
    \E k \in DOMAIN inv[n].requests :
        /\ StateOf(n, k) = "rejected"
        /\ Answered(n, k)
        /\ "error" \in DOMAIN inv[n].requests[k].response

\* C6: with the gate open, once a fetch has thrown a transport-level error the
\* invocation emits no signal at all; the handler has logged the error and
\* ended.
C6_ThrowDropsAndLogs ==
    \A n \in Invocations :
        (Started(n) /\ inv[n].weShouldFetch /\ TransportError(n)) =>
            /\ inv[n].sent = <<>>
            /\ inv[n].pc = "done"
            /\ inv[n].logged = 1

\* C7: no exception leaves the handler, and no promise it started is left to
\* reject with nothing awaiting it.
C7_NothingEscapes ==
    \A n \in Invocations :
        Started(n) =>
            /\ inv[n].pc # "threw"
            /\ \A k \in DOMAIN inv[n].requests :
                  StateOf(n, k) = "rejected" => inv[n].pc = "done"

\* What a promise shows of its launch: the operation, its argument and
\* whether it started its call, without the state of the promise.
Launch(p) ==
    [op |-> p.op,
     called |-> "request" \in DOMAIN p,
     destination |-> IF "destination" \in DOMAIN p THEN p.destination.name ELSE 0]

\* C8: invocations in flight together do not interfere: each launches what it
\* would launch if it ran alone, whatever the others left in the counter i,
\* and delivers a list of the results of its own fetches only.
C8_NoInterference ==
    \A n \in Invocations :
        Started(n) =>
            LET mine == inv[n].requests
                alone == Received(inv[n].notification, inv[n].payload, inv[n].now,
                                  Undeclared).self.requests
            IN  /\ Len(mine) = Len(alone)
                /\ \A k \in DOMAIN mine : Launch(mine[k]) = Launch(alone[k])
                /\ \A s \in Sent(n, COMMUTE_DATA) :
                      /\ Len(inv[n].sent[s].payload) = Len(mine)
                      /\ \A k \in DOMAIN mine :
                            inv[n].sent[s].payload[k] = mine[k].value

C8_Witness ==
    \E n, m \in Invocations :
        /\ n < m
        /\ Commute(n) /\ EvenMinute(n) /\ NumDestinations(inv[n].payload) >= 1
        /\ Commute(m) /\ EvenMinute(m) /\ NumDestinations(inv[m].payload) >= 1
        /\ inv[n].pc = "awaiting" /\ SomePending(n)
        /\ inv[m].pc = "done" /\ Sent(m, COMMUTE_DATA) # {}

\* C9: a FETCH_STOP_SCHEDULE invocation with the gate open calls
\* fetchStopSchedule once and nothing else; when the call has returned a
\* result, and not before, it emits exactly one BUS_STOP_DATA carrying that
\* result, and no other signal.
C9_StopScheduleForwarded ==
    \A n \in Invocations :
        StopSchedule(n) =>
            LET self == inv[n]
            IN  /\ Len(self.requests) = 1
                /\ self.requests[1].op = "fetchStopSchedule"
                /\ Calls(self) = {1}
                /\ StateOf(n, 1) = "fulfilled" =>
                      /\ Len(self.sent) = 1
                      /\ self.sent[1].notification = BUS_STOP_DATA
                      /\ self.sent[1].payload = self.requests[1].value
                      /\ self.pc = "done"
                /\ StateOf(n, 1) # "fulfilled" => self.sent = <<>>

C9_Witness ==
    \E n, m \in Invocations :
        /\ StopSchedule(n) /\ StateOf(n, 1) = "fulfilled"
        /\ inv[n].requests[1].value.success
        /\ Sent(n, BUS_STOP_DATA) = {1}
        /\ StopSchedule(m) /\ StateOf(m, 1) = "fulfilled"
        /\ ~inv[m].requests[1].value.success
        /\ Sent(m, BUS_STOP_DATA) = {1}

Aggregating(n) == Commute(n) /\ inv[n].pc # "threw"

\* C10 as stated: the aggregation of a FETCH_COMMUTE invocation completes,
\* by delivering or by dropping, only when every fetch it launched has settled.
C10_CompletesWhenAllSettled ==
    \A n \in Invocations :
        (Aggregating(n) /\ inv[n].pc = "done") => ~SomePending(n)

\* C10 as amended: the aggregation delivers COMMUTE_DATA only when every fetch
\* it launched has fulfilled, and it logs and drops the batch as soon as one
\* of them has rejected, without waiting for the rest; while it is suspended
\* no fetch has rejected and one is still pending.
C10_CompletesOnFirstRejection ==
    \A n \in Invocations :
        Aggregating(n) =>
            /\ Sent(n, COMMUTE_DATA) # {} => AllFulfilled(n)
            /\ inv[n].pc = "awaiting" <=> (SomePending(n) /\ ~SomeRejected(n))
            /\ SomeRejected(n) => (inv[n].sent = <<>> /\ inv[n].logged = 1)

C10_Witness ==
    \E n \in Invocations :
        /\ Aggregating(n) /\ inv[n].pc = "done"
        /\ SomePending(n)
        /\ \E k \in DOMAIN inv[n].requests :
              StateOf(n, k) = "rejected" /\ Answered(n, k)
        /\ inv[n].logged = 1
        /\ inv[n].sent = <<>>

====
